---- MODULE Spec2Model ----
(***************************************************************************)
(* State-machine model of src/solver.py (class Solver): construction with  *)
(* optional checkpoint load, the training loop, the optimization step,     *)
(* the checkpoint store and the top-1 / top-5 evaluator.                   *)
(*                                                                         *)
(* Strings (version, pretrained_model, file names) are sequences of        *)
(* one-character strings.  Model parameters are abstracted to the number   *)
(* of optimizer updates applied since a fresh initialisation.  A fraction  *)
(* a / b is kept as the pair <<a, b>>.                                      *)
(***************************************************************************)
EXTENDS Integers, Sequences, FiniteSets, TLC

\* ------------------------------------------------------------- bounds
MaxEpochs == 2
MaxBatches == 2
NumClasses == 6

\* ------------------------------------------------------------- inputs
Classes == 1..NumClasses
\* run identifiers: one that is not a number and one that is
Versions == {<<"v">>, <<"1">>}
\* the logging, checkpoint and evaluation intervals
StepChoices == {1, 2}
EpochChoices == 0..MaxEpochs
BatchSizes == {1}
EvalBatchSizes == {1, 2}
ScoreChoices == {0, 1}
Modes == {"train", "test"}

\* one batch of the data source: the inputs and the labels delivered with
\* them (an input carries no class, it is written 0)
Batch(ls) == [images |-> [k \in 1..Len(ls) |-> 0], labels |-> ls]
\* the data source of n batches of bs examples; the j-th example of the
\* data set has label LabelAt(j)
LabelAt(j) == ((j - 1) % NumClasses) + 1
MakeLoader(n, bs) ==
    [b \in 1..n |-> Batch([k \in 1..bs |-> LabelAt((b - 1) * bs + k)])]
DataLoaders == {MakeLoader(n, bs) : n \in 0..MaxBatches, bs \in BatchSizes}
EvalLoaders == {MakeLoader(n, bs) : n \in 0..MaxBatches, bs \in EvalBatchSizes}

\* ------------------------------------------------------------- strings
DigitChars == <<"0", "1", "2", "3", "4", "5", "6", "7", "8", "9">>
Digits == {DigitChars[k] : k \in 1..10}
DigitValue(c) == (CHOOSE k \in 1..10 : DigitChars[k] = c) - 1

\* '{}'.format(n) for a non-negative integer n
RECURSIVE Str(_)
Str(n) == IF n < 10 THEN <<DigitChars[n + 1]>>
          ELSE Str(n \div 10) \o <<DigitChars[(n % 10) + 1]>>

\* s.split('_')[0]
FirstToken(s) ==
    LET us == {k \in 1..Len(s) : s[k] = "_"}
    IN  IF us = {} THEN s
        ELSE SubSeq(s, 1, (CHOOSE k \in us : \A j \in us : k <= j) - 1)

\* int(tok) succeeds on a non-empty run of decimal digits
IsInt(tok) == Len(tok) > 0 /\ \A k \in 1..Len(tok) : tok[k] \in Digits
RECURSIVE IntValue(_)
IntValue(tok) ==
    IF Len(tok) = 0 THEN 0
    ELSE 10 * IntValue(SubSeq(tok, 1, Len(tok) - 1)) + DigitValue(tok[Len(tok)])

\* a checkpoint identifier written from its three parts, 1-based
NameOf(v, a, b) == v \o <<"_">> \o Str(a) \o <<"_">> \o Str(b)
PthSuffix == <<".", "p", "t", "h">>

\* the identifiers a run may be given as pretrained_model
PretrainedChoices ==
    {<<>>} \cup {NameOf(v, a, b) : v \in Versions, a \in 1..MaxEpochs,
                                   b \in 1..MaxBatches}

\* ------------------------------------------------------------- checkpoint store
\* variant of SaveFile that writes the 0-based indices
SaveFileOffByOne(version, e, i) ==
    version \o <<"_">> \o Str(e) \o <<"_">> \o Str(i) \o PthSuffix

\* save_model: '{}_{}_{}.pth'.format(self.version, e + 1, i + 1)
SaveFile(version, e, i) ==
    version \o <<"_">> \o Str(e + 1) \o <<"_">> \o Str(i + 1) \o PthSuffix

\* load_pretrained_model: '{}.pth'.format(self.pretrained_model)
LoadFile(pretrained_model) == pretrained_model \o PthSuffix

\* ------------------------------------------------------------- training loop helpers
\* variant of StartEpoch that ignores the pretrained model
StartEpochZero(pretrained_model) == 0

\* int(self.pretrained_model.split('_')[0]), or 0 without a pretrained model
StartEpoch(pretrained_model) ==
    IF pretrained_model # <<>> THEN IntValue(FirstToken(pretrained_model)) ELSE 0

\* variant of InRange that includes the stop value
InRangeInclusive(x, stop) == x <= stop

\* range(start, self.num_epochs) yields x while x < num_epochs
InRange(x, stop) == x < stop

\* variant of EnumerateIndex that counts down
EnumerateReversed(pos, n) == n - pos

\* enumerate(...): the index of the pos-th batch (pos counts from 1) of n
EnumerateIndex(pos, n) == pos - 1

\* variant of Fires that ignores the interval
FiresEveryEpoch(e, step) == TRUE

\* (e + 1) % step == 0
Fires(e, step) == (e + 1) % step = 0

\* print_loss_log: cur_iter = e * iters_per_epoch + i
CurIter(e, i, iters_per_epoch) == e * iters_per_epoch + i

\* ------------------------------------------------------------- evaluator helpers
Scores == [Classes -> ScoreChoices]

\* torch.max(output.data, dim=1): an index of a maximal score of the row.
\* Which maximal index is returned when several classes tie is left to the
\* build, so every maximal index is a possible result.
TorchMax(row) == {c \in Classes : \A d \in Classes : row[d] <= row[c]}

\* torch.topk(output.data, k, dim=1): the indices of k largest scores of the
\* row.  Ties at the boundary are broken as the build pleases, so every set
\* of k indices that no outside index beats is a possible result; there is
\* none when the row has fewer than k entries.
TorchTopK(row, k) ==
    {S \in SUBSET Classes :
        /\ Cardinality(S) = k
        /\ \A c \in S : \A d \in Classes \ S : row[d] <= row[c]}

\* what one example contributes: <<torch.eq(label, top_1_output),
\* label in top_5_output[i]>>, over every output row the model may produce
HitTable ==
    [l \in Classes |->
        {<<t1 = l, l \in t5>> :
            <<t1, t5>> \in UNION {TorchMax(row) \X TorchTopK(row, 5) : row \in Scores}}]

CountTrue(bs) == Cardinality({k \in 1..Len(bs) : bs[k]})

\* variant of BatchSize that counts batches, not examples
BatchSizeOne(labels) == 1

\* labels.size()[0]
BatchSize(labels) == Len(labels)

\* ------------------------------------------------------------- state
VARIABLES
    data_loader,        \* self.data_loader: the finite, restartable batch sequence
    loss_log_step,      \* self.loss_log_step
    model_save_step,    \* self.model_save_step
    train_eval_step,    \* self.train_eval_step
    version,            \* self.version
    num_epochs,         \* self.num_epochs
    pretrained_model,   \* self.pretrained_model (<<>> is the empty, falsy string)
    entry,              \* which method the process calls after construction
    run,                \* "none", "first" (a process), "later" (a process that
                        \* is started afterwards from a named checkpoint)
    model,              \* self.model: [params, training]
    files,              \* the model-save directory: file name -> saved parameters
    pc,                 \* position of the running process
    fault,              \* <<>> or <<exception, place>> of the uncaught fault
    start, e, i, loss,  \* locals of train()
    bound,              \* which of the locals e, i, loss have been assigned
    pos,                \* position of the running iteration over data_loader
    losses, top_1_acc, top_5_acc,   \* self.losses, self.top_1_acc, self.top_5_acc
    console,            \* the lines printed by the process
    top_1_correct, top_5_correct, total,    \* locals of eval()
    eq, in5,            \* eval(): per example of the last batch, the top-1 / top-5 hit
    ret,                \* the tuple eval() returned to its caller
    caller,             \* who called eval()
    steps,              \* history: the model_step calls of the current train()
    saved,              \* history: what save_model wrote, by (version, e, i)
    pre                 \* history: model and files when train() was entered

env == <<data_loader, loss_log_step, model_save_step, train_eval_step>>
cfg == <<version, num_epochs, pretrained_model, entry, run>>
loopv == <<start, e, i, loss, bound, pos>>
logs == <<losses, top_1_acc, top_5_acc>>
evalv == <<top_1_correct, top_5_correct, total, eq, in5, ret, caller>>
hist == <<steps, saved, pre>>
vars == <<env, cfg, model, files, pc, fault, loopv, logs, console, evalv, hist>>

EmptyStore == [x \in {} |-> 0]
NoFault == <<>>
\* variant of ZeroCount that starts the counter as a tensor
ZeroCountTensor == [tensor |-> TRUE, val |-> 0]
\* line 219: top_1_correct = 0, a Python integer until a tensor is added to it
ZeroCount == [tensor |-> FALSE, val |-> 0]
Line(kind, a, b) == [kind |-> kind, epoch |-> a, iter |-> b]

\* build_model: a freshly initialised network, in training mode
FreshModel == [params |-> 0, training |-> TRUE]

InitWith(loaders) ==
    /\ data_loader \in loaders
    /\ loss_log_step \in StepChoices
    /\ model_save_step \in StepChoices
    /\ train_eval_step \in StepChoices
    /\ version = <<>> /\ num_epochs = 0 /\ pretrained_model = <<>>
    /\ entry = "train" /\ run = "none"
    /\ model = FreshModel
    /\ files = EmptyStore
    /\ pc = "new" /\ fault = NoFault
    /\ start = 0 /\ e = 0 /\ i = 0 /\ loss = <<>> /\ bound = {} /\ pos = 0
    /\ losses = <<>> /\ top_1_acc = <<>> /\ top_5_acc = <<>>
    /\ console = <<>>
    /\ top_1_correct = ZeroCount /\ top_5_correct = 0 /\ total = 0
    /\ eq = <<>> /\ in5 = <<>> /\ ret = <<>> /\ caller = "none"
    /\ steps = <<>> /\ saved = {} /\ pre = [model |-> FreshModel, files |-> EmptyStore]

Init == InitWith(DataLoaders)

\* an uncaught exception ends the process
Raise(kind, place) == pc' = "fault" /\ fault' = <<kind, place>>

\* ------------------------------------------------------------- construction
\* Solver.__init__ of a new process: configuration, build_model, and
\* load_pretrained_model when a pretrained model is named
Construct(v, n, pm, m) ==
    /\ \/ run = "none" /\ pc = "new"
       \/ run = "first" /\ pc = "exited" /\ pm # <<>>
    /\ run' = IF run = "none" THEN "first" ELSE "later"
    /\ version' = v /\ num_epochs' = n /\ pretrained_model' = pm /\ entry' = m
    /\ IF pm # <<>>
       THEN IF LoadFile(pm) \in DOMAIN files
            THEN /\ model' = [params |-> files[LoadFile(pm)], training |-> TRUE]
                 /\ console' = <<Line("network", 0, 0), Line("loaded", 0, 0)>>
                 /\ pc' = "constructed" /\ fault' = NoFault
            ELSE /\ model' = FreshModel
                 /\ console' = <<Line("network", 0, 0)>>
                 /\ Raise("FileNotFoundError", "load_pretrained_model:79")
       ELSE /\ model' = FreshModel
            /\ console' = <<Line("network", 0, 0)>>
            /\ pc' = "constructed" /\ fault' = NoFault
    /\ start' = 0 /\ e' = 0 /\ i' = 0 /\ loss' = <<>> /\ bound' = {} /\ pos' = 0
    /\ losses' = <<>> /\ top_1_acc' = <<>> /\ top_5_acc' = <<>>
    /\ top_1_correct' = ZeroCount /\ top_5_correct' = 0 /\ total' = 0
    /\ eq' = <<>> /\ in5' = <<>> /\ ret' = <<>> /\ caller' = "none"
    /\ steps' = <<>> /\ pre' = [model |-> model', files |-> files]
    /\ UNCHANGED <<env, files, saved>>

\* ------------------------------------------------------------- train()
\* lines 128-141: reset the metric logs and compute the start epoch
TrainBegin ==
    /\ pc = "constructed" /\ entry = "train"
    /\ losses' = <<>> /\ top_1_acc' = <<>> /\ top_5_acc' = <<>>
    /\ pre' = [model |-> model, files |-> files]
    /\ IF pretrained_model # <<>> /\ ~IsInt(FirstToken(pretrained_model))
       THEN Raise("ValueError", "train:136") /\ start' = start
       ELSE start' = StartEpoch(pretrained_model) /\ pc' = "epoch" /\ fault' = fault
    /\ UNCHANGED <<env, cfg, model, files, e, i, loss, bound, pos, console, evalv,
                   steps, saved>>

\* line 142: for e in range(start, self.num_epochs)
EpochNext ==
    /\ pc = "epoch"
    /\ LET nxt == IF "e" \in bound THEN e + 1 ELSE start
       IN  IF InRange(nxt, num_epochs)
           THEN /\ e' = nxt /\ bound' = bound \cup {"e"} /\ pos' = 1
                /\ pc' = IF Len(data_loader) = 0 THEN "log" ELSE "batch"
           ELSE /\ pc' = "done" /\ UNCHANGED <<e, bound, pos>>
    /\ UNCHANGED <<env, cfg, model, files, fault, start, i, loss, logs, console,
                   evalv, hist>>

\* line 144: images = to_var(images, self.use_gpu)
StepImages(batch) == batch.images

\* line 145: labels = to_var(images, self.use_gpu)
StepTarget(batch) == batch.images

\* lines 143-147 and model_step: one batch, one optimization step
BatchStep ==
    /\ pc = "batch"
    /\ LET batch == data_loader[pos]
           idx == EnumerateIndex(pos, Len(data_loader))
       IN  /\ i' = idx
           /\ model' = [params |-> model.params + 1, training |-> TRUE]
           /\ loss' = <<e, idx>>
           /\ steps' = Append(steps, [e |-> e, i |-> idx,
                                      images |-> StepImages(batch),
                                      target |-> StepTarget(batch)])
    /\ bound' = bound \cup {"i", "loss"}
    /\ pos' = pos + 1
    /\ pc' = IF pos = Len(data_loader) THEN "log" ELSE "batch"
    /\ UNCHANGED <<env, cfg, files, fault, start, e, logs, console, evalv, saved, pre>>

\* lines 149-152: print the loss log and record the (epoch, loss) sample
LossLog ==
    /\ pc = "log"
    /\ IF Fires(e, loss_log_step)
       THEN IF {"i", "loss"} \subseteq bound
            THEN /\ console' = Append(console,
                        Line("loss", e + 1, CurIter(e, i, Len(data_loader)) + 1))
                 /\ losses' = Append(losses, <<e, loss>>)
                 /\ pc' = "save" /\ fault' = fault
            ELSE /\ Raise("UnboundLocalError", "train:151")
                 /\ UNCHANGED <<console, losses>>
       ELSE pc' = "save" /\ UNCHANGED <<console, losses, fault>>
    /\ UNCHANGED <<env, cfg, model, files, loopv, top_1_acc, top_5_acc, evalv, hist>>

\* lines 154-156 and save_model: write the checkpoint of this epoch
SaveModel ==
    /\ pc = "save"
    /\ IF Fires(e, model_save_step)
       THEN IF "i" \in bound
            THEN /\ files' = (SaveFile(version, e, i) :> model.params) @@ files
                 /\ saved' = {r \in saved : <<r.version, r.e, r.i>> # <<version, e, i>>}
                             \cup {[version |-> version, e |-> e, i |-> i,
                                    params |-> model.params]}
                 /\ pc' = "evaluate" /\ fault' = fault
            ELSE /\ Raise("UnboundLocalError", "train:156")
                 /\ UNCHANGED <<files, saved>>
       ELSE pc' = "evaluate" /\ UNCHANGED <<files, saved, fault>>
    /\ UNCHANGED <<env, cfg, model, loopv, logs, console, evalv, steps, pre>>

\* ------------------------------------------------------------- eval()
\* lines 217-221: inference mode, counters at zero, then the batch loop
EvalBegin(who) ==
    /\ caller' = who
    /\ model' = [model EXCEPT !.training = FALSE]
    /\ top_1_correct' = ZeroCount /\ top_5_correct' = 0 /\ total' = 0
    /\ eq' = <<>> /\ in5' = <<>> /\ ret' = <<>>
    /\ pos' = 1
    /\ pc' = IF Len(data_loader) = 0 THEN "eval_end" ELSE "eval_batch"

\* lines 158-160: evaluate on the train data source every train_eval_step epochs
TrainEvaluate ==
    /\ pc = "evaluate"
    /\ IF Fires(e, train_eval_step)
       THEN EvalBegin("train_evaluate")
       ELSE pc' = "epoch" /\ UNCHANGED <<model, pos, evalv>>
    /\ UNCHANGED <<env, cfg, files, fault, start, e, i, loss, bound, logs, console, hist>>

\* test(): line 205
Test ==
    /\ pc = "constructed" /\ entry = "test"
    /\ EvalBegin("test")
    /\ UNCHANGED <<env, cfg, files, fault, start, e, i, loss, bound, logs, console, hist>>

\* lines 223-242: one batch of the evaluation loop
EvalBatch ==
    /\ pc = "eval_batch"
    /\ LET ls == data_loader[pos].labels
       IN  IF \E k \in 1..Len(ls) : HitTable[ls[k]] = {}
           THEN /\ Raise("RuntimeError", "eval:239")
                /\ UNCHANGED <<top_1_correct, top_5_correct, total, eq, in5, pos>>
           ELSE \E hits \in [1..Len(ls) -> BOOLEAN \X BOOLEAN] :
                /\ \A k \in 1..Len(ls) : hits[k] \in HitTable[ls[k]]
                /\ eq' = [k \in 1..Len(ls) |-> hits[k][1]]
                /\ in5' = [k \in 1..Len(ls) |-> hits[k][2]]
                /\ total' = total + BatchSize(ls)
                /\ top_1_correct' = [tensor |-> TRUE,
                                     val |-> top_1_correct.val + CountTrue(eq')]
                /\ top_5_correct' = top_5_correct + CountTrue(in5')
                /\ pos' = pos + 1
                /\ pc' = IF pos = Len(data_loader) THEN "eval_end" ELSE "eval_batch"
                /\ fault' = fault
    /\ UNCHANGED <<env, cfg, model, files, start, e, i, loss, bound, logs, console,
                   ret, caller, hist>>

\* line 244: return top_1_correct.item(), top_5_correct, total
\* (.item() exists on a tensor, not on the integer 0 the counter starts as)
EvalReturn ==
    /\ pc = "eval_end"
    /\ IF top_1_correct.tensor
       THEN /\ ret' = <<top_1_correct.val, top_5_correct, total>>
            /\ pc' = "eval_returned" /\ fault' = fault
       ELSE /\ Raise("AttributeError", "eval:244") /\ ret' = ret
    /\ top_1_correct' = ZeroCount /\ top_5_correct' = 0 /\ total' = 0
    /\ eq' = <<>> /\ in5' = <<>>
    /\ UNCHANGED <<env, cfg, model, files, loopv, logs, console, caller, hist>>

\* train_evaluate lines 192-199 and train lines 161-162
TrainEvaluateFinish ==
    /\ pc = "eval_returned" /\ caller = "train_evaluate"
    /\ IF ret[3] = 0
       THEN /\ Raise("ZeroDivisionError", "train_evaluate:195")
            /\ UNCHANGED <<console, top_1_acc, top_5_acc>>
       ELSE /\ console' = Append(console, Line("acc", e + 1, 0))
            /\ top_1_acc' = Append(top_1_acc, <<e, <<ret[1], ret[3]>>>>)
            /\ top_5_acc' = Append(top_5_acc, <<e, <<ret[2], ret[3]>>>>)
            /\ pc' = "epoch" /\ fault' = fault
    /\ ret' = <<>> /\ caller' = "none"
    /\ UNCHANGED <<env, cfg, model, files, loopv, losses, top_1_correct,
                   top_5_correct, total, eq, in5, hist>>

\* test lines 206-210
TestFinish ==
    /\ pc = "eval_returned" /\ caller = "test"
    /\ IF ret[3] = 0
       THEN Raise("ZeroDivisionError", "test:207") /\ console' = console
       ELSE /\ console' = Append(console, Line("test", 0, 0))
            /\ pc' = "done" /\ fault' = fault
    /\ ret' = <<>> /\ caller' = "none"
    /\ UNCHANGED <<env, cfg, model, files, loopv, logs, top_1_correct,
                   top_5_correct, total, eq, in5, hist>>

\* the process ends, normally or by its uncaught fault: its memory is gone,
\* the model-save directory stays
Exit ==
    /\ pc \in {"done", "fault"}
    /\ pc' = "exited" /\ fault' = NoFault
    /\ version' = <<>> /\ num_epochs' = 0 /\ pretrained_model' = <<>>
    /\ entry' = "train" /\ run' = run
    /\ model' = FreshModel
    /\ start' = 0 /\ e' = 0 /\ i' = 0 /\ loss' = <<>> /\ bound' = {} /\ pos' = 0
    /\ losses' = <<>> /\ top_1_acc' = <<>> /\ top_5_acc' = <<>>
    /\ console' = <<>>
    /\ top_1_correct' = ZeroCount /\ top_5_correct' = 0 /\ total' = 0
    /\ eq' = <<>> /\ in5' = <<>> /\ ret' = <<>> /\ caller' = "none"
    /\ steps' = <<>> /\ pre' = [model |-> FreshModel, files |-> EmptyStore]
    /\ UNCHANGED <<env, files, saved>>

Next ==
    \/ \E v \in Versions, n \in EpochChoices, pm \in PretrainedChoices, m \in Modes :
          Construct(v, n, pm, m)
    \/ TrainBegin
    \/ EpochNext
    \/ BatchStep
    \/ LossLog
    \/ SaveModel
    \/ TrainEvaluate
    \/ Test
    \/ EvalBatch
    \/ EvalReturn
    \/ TrainEvaluateFinish
    \/ TestFinish
    \/ Exit

Spec == Init /\ [][Next]_vars

\* the evaluator alone: processes that call test(), over data sources with
\* batches of more than one example
InitEval == InitWith(EvalLoaders)

NextEval ==
    \/ \E v \in Versions, n \in EpochChoices, pm \in PretrainedChoices :
          Construct(v, n, pm, "test")
    \/ Test
    \/ EvalBatch
    \/ EvalReturn
    \/ TestFinish
    \/ Exit

SpecEval == InitEval /\ [][NextEval]_vars

\* ------------------------------------------------------------- properties
Max0(x) == IF x < 0 THEN 0 ELSE x
Multiple(a, b) == a % b = 0
IterPerEpoch == Len(data_loader)

\* a process is inside train(), or has left it (normally or by a fault of train)
TrainEntered ==
    /\ entry = "train"
    /\ pc \notin {"new", "constructed", "exited"}
    /\ fault # <<"FileNotFoundError", "load_pretrained_model:79">>

\* the resume epoch could not be parsed: train() faulted before its loop
ParseFault == fault = <<"ValueError", "train:136">>

\* the start point the configuration asks for
ConfiguredStart ==
    IF pretrained_model = <<>> THEN 0 ELSE IntValue(FirstToken(pretrained_model))

\* C1: a train() run that ends normally has made exactly
\* max(0, num_epochs - start) * (number of batches) optimization steps, start
\* being 0 without a pretrained model and the resume epoch otherwise; the k-th
\* step is that of epoch start + (k-1) div batches, batch (k-1) mod batches,
\* on that batch's inputs, so every batch is visited once per epoch in
\* increasing (epoch, batch) order, and each step updates the parameters once.
C1_StepsPerRun ==
    (TrainEntered /\ pc = "done") =>
        /\ Len(steps) = Max0(num_epochs - ConfiguredStart) * IterPerEpoch
        /\ \A k \in DOMAIN steps :
              /\ steps[k].e = ConfiguredStart + ((k - 1) \div IterPerEpoch)
              /\ steps[k].i = (k - 1) % IterPerEpoch
              /\ steps[k].images = data_loader[steps[k].i + 1].images
        /\ model.params = pre.model.params + Len(steps)

C1_Witness ==
    /\ TrainEntered /\ pc = "done"
    /\ IterPerEpoch = 2 /\ Len(steps) = 4

\* C2: in every optimization step the loss target is the label batch that the
\* data source delivered with the input batch.
C2_TargetIsLabels ==
    \A k \in DOMAIN steps : steps[k].target = data_loader[steps[k].i + 1].labels

\* C3: when pretrained_model names the checkpoint that save_model(e, i) wrote,
\* train() starts its epoch loop at e + 1.
C3_ResumeAtCheckpointEpoch ==
    \A r \in saved :
        (TrainEntered /\ pretrained_model = NameOf(r.version, r.e + 1, r.i + 1))
            => (~ParseFault /\ start = r.e + 1)

\* the epochs whose end-of-epoch loss-log point has been executed
LogPointPassed(x) ==
    /\ "e" \in bound
    /\ start <= x
    /\ x < e \/ (x = e /\ pc \notin {"batch", "log"})

LossLines == SelectSeq(console, LAMBDA l : l.kind = "loss")

\* the loss-log events so far are those of the epochs e that have ended with
\* (e + 1) a multiple of loss_log_step: one sample and one console line each,
\* in increasing order of epoch
LossLogOnSchedule ==
    LET due == {x \in 0..MaxEpochs :
                    LogPointPassed(x) /\ Multiple(x + 1, loss_log_step)}
    IN  /\ Len(losses) = Cardinality(due)
        /\ \A k \in DOMAIN losses :
              /\ losses[k][1] \in due
              /\ k > 1 => losses[k - 1][1] < losses[k][1]
        /\ Len(LossLines) = Len(losses)
        /\ \A k \in DOMAIN losses : LossLines[k].epoch = losses[k][1] + 1

\* C4 as stated: during train(), a loss-log event occurs at the end of epoch e
\* exactly when (e + 1) is a multiple of loss_log_step, for every data source.
C4_Original == TrainEntered => LossLogOnSchedule

\* C4 amended: the same, for a data source of at least one batch; the sample
\* of epoch e carries the loss of the last batch of e.
C4_LossLogSchedule ==
    (TrainEntered /\ IterPerEpoch > 0) =>
        /\ LossLogOnSchedule
        /\ \A k \in DOMAIN losses :
              losses[k][2] = <<losses[k][1], IterPerEpoch - 1>>

C4_Witness ==
    /\ TrainEntered /\ pc = "done" /\ IterPerEpoch > 0
    /\ loss_log_step = 2 /\ num_epochs = 2 /\ start = 0
    /\ Len(losses) = 1 /\ losses[1][1] = 1

\* C5: train() with start = num_epochs makes no optimization step, writes no
\* checkpoint, records no loss or accuracy sample, and leaves the parameters
\* and the train/eval mode of the model as they were.
C5_ZeroEpochs ==
    (TrainEntered /\ ~ParseFault /\ start = num_epochs) =>
        /\ pc \in {"epoch", "done"}
        /\ steps = <<>>
        /\ files = pre.files
        /\ losses = <<>> /\ top_1_acc = <<>> /\ top_5_acc = <<>>
        /\ model = pre.model

C5_Witness ==
    /\ TrainEntered /\ pc = "done"
    /\ start = num_epochs /\ num_epochs > 0
    /\ IterPerEpoch > 0 /\ model.params > 0

\* C6: the top-5 correct count of eval is at least its top-1 correct count, and
\* both are at most the total, after every batch and in the returned tuple.
C6_Top5AtLeastTop1 ==
    /\ top_1_correct.val <= top_5_correct
    /\ top_5_correct <= total
    /\ ret # <<>> => (ret[1] <= ret[2] /\ ret[2] <= ret[3])

\* The hits the evaluator can record for an example with label l on a row of
\* scores, said from the scores: a top-1 hit needs l to score highest, and
\* is certain when l alone scores highest; a top-5 hit needs fewer than five
\* classes to score above l, and is certain when fewer than five other
\* classes score at least as much as l.
HitsByScore ==
    \A l \in Classes : \A row \in Scores :
      \A t1 \in TorchMax(row) : \A t5 \in TorchTopK(row, 5) :
        LET above == {d \in Classes : row[d] > row[l]}
            rivals == {d \in Classes \ {l} : row[d] >= row[l]}
        IN  /\ (t1 = l) => above = {}
            /\ rivals = {} => (t1 = l)
            /\ (l \in t5) => Cardinality(above) < 5
            /\ Cardinality(rivals) < 5 => (l \in t5)

RECURSIVE ExamplesIn(_)
ExamplesIn(dl) ==
    IF Len(dl) = 0 THEN 0
    ELSE ExamplesIn(SubSeq(dl, 1, Len(dl) - 1)) + Len(dl[Len(dl)].labels)
TotalExamples == ExamplesIn(data_loader)

C8_SaveLoadRoundTrip ==
    /\ \A r \in saved :
          (run = "later" /\ pretrained_model = NameOf(r.version, r.e + 1, r.i + 1))
              => /\ fault # <<"FileNotFoundError", "load_pretrained_model:79">>
                 /\ pc = "constructed" => model.params = r.params
    /\ Cardinality(DOMAIN files) = Cardinality(saved)
    /\ \A r \in saved : LoadFile(NameOf(r.version, r.e + 1, r.i + 1)) \in DOMAIN files

C8_Witness ==
    /\ run = "later" /\ pc = "constructed"
    /\ \E r \in saved :
          /\ pretrained_model = NameOf(r.version, r.e + 1, r.i + 1)
          /\ r.e = 0 /\ r.params = 2 /\ model.params = 2

\* two successive states of one train() run
InTrainStep == TrainEntered /\ TrainEntered' /\ pc' # "fault"

\* C9 as stated: within one train() run neither the epoch index e nor the
\* iteration index i ever takes a value smaller than its previous value.
C9_Original == [][InTrainStep => (e' >= e /\ i' >= i)]_vars

LastLossIter(c) ==
    LET its == {c[k].iter : k \in {j \in DOMAIN c : c[j].kind = "loss"}}
    IN  IF its = {} THEN 0 ELSE CHOOSE m \in its : \A n \in its : n <= m

\* C9 amended: within one train() run the epoch index e never decreases; the
\* iteration index i never decreases between the batches of one epoch and
\* goes back to 0 only at the first batch of a later epoch; the running
\* iteration count e * iters_per_epoch + i of successive loss logs increases.
C9_Counters ==
    [][InTrainStep =>
          /\ e' >= e
          /\ (pc = "batch" /\ pos > 1) => i' = i + 1
          /\ i' < i => (pc = "batch" /\ pos = 1 /\ i' = 0 /\ e > steps[Len(steps)].e)
          /\ Len(console') > Len(console) /\ console'[Len(console')].kind = "loss"
                => console'[Len(console')].iter > LastLossIter(console)
      ]_vars

C9_Witness ==
    /\ TrainEntered /\ pc = "done"
    /\ e = 1 /\ i = 1 /\ Len(steps) = 4 /\ Len(LossLines) = 2

EmptySource == Len(data_loader) = 0

\* a fault of the running method, after construction and after the
\* resume-epoch parse
MethodFault ==
    /\ pc = "fault"
    /\ fault # <<"FileNotFoundError", "load_pretrained_model:79">>
    /\ ~ParseFault

\* C10 as stated: on a data source without batches the evaluator returns a
\* total of 0 and the fault is the division by zero in its caller, which in
\* train() is the first fault, before any sample or checkpoint.
C10_Original ==
    EmptySource =>
        /\ pc = "eval_end" => top_1_correct.tensor
        /\ MethodFault => /\ fault[1] = "ZeroDivisionError"
                          /\ fault[2] \in {"train_evaluate:195", "test:207"}
        /\ TrainEntered => (losses = <<>> /\ top_1_acc = <<>> /\ top_5_acc = <<>>
                                /\ files = pre.files)

NoneDue(x) ==
    /\ ~Multiple(x + 1, loss_log_step)
    /\ ~Multiple(x + 1, model_save_step)
    /\ ~Multiple(x + 1, train_eval_step)

\* C10 amended: on a data source without batches the evaluator never returns:
\* it faults at its return statement, on the integer top-1 counter, so no
\* caller reaches its division.  test() ends with that fault.  train() ends
\* with a fault at the first epoch e >= start at which an interval is due: on
\* the unassigned loop variables at the loss log if loss_log_step is due,
\* else at save_model if model_save_step is due, else with the evaluator's
\* fault.  No loss sample, accuracy sample, checkpoint or optimization step
\* is produced, and the fault ends the process.
C10_EmptySource ==
    EmptySource =>
        /\ pc # "eval_returned" /\ ret = <<>>
        /\ MethodFault =>
              /\ fault \in {<<"AttributeError", "eval:244">>,
                            <<"UnboundLocalError", "train:151">>,
                            <<"UnboundLocalError", "train:156">>}
              /\ entry = "test" => fault[2] = "eval:244"
              /\ entry = "train" =>
                    /\ "e" \in bound /\ start <= e /\ e < num_epochs
                    /\ \A x \in start..(e - 1) : NoneDue(x)
                    /\ fault[2] = "train:151" <=> Multiple(e + 1, loss_log_step)
                    /\ fault[2] = "train:156" <=>
                          (~Multiple(e + 1, loss_log_step)
                              /\ Multiple(e + 1, model_save_step))
                    /\ fault[2] = "eval:244" => Multiple(e + 1, train_eval_step)
        /\ (TrainEntered /\ pc = "done") => \A x \in ConfiguredStart..(num_epochs - 1) : NoneDue(x)
        /\ TrainEntered => (losses = <<>> /\ top_1_acc = <<>> /\ top_5_acc = <<>>
                                /\ files = pre.files /\ steps = <<>>)
        /\ pc = "fault" => ~ENABLED (TrainBegin \/ EpochNext \/ BatchStep \/ LossLog
                                        \/ SaveModel \/ TrainEvaluate \/ Test
                                        \/ EvalBatch \/ EvalReturn
                                        \/ TrainEvaluateFinish \/ TestFinish)

C10_Witness ==
    /\ EmptySource /\ TrainEntered /\ pc = "fault"
    /\ fault = <<"AttributeError", "eval:244">> /\ caller = "train_evaluate"
    /\ e = 0 /\ loss_log_step = 2

====
